---- MODULE Spec2Model ----
(***************************************************************************)
(* YouTubeAnalyzer.transcribe_audio (src/youtube_analyzer.py, 153-260):    *)
(* probe the duration, cut the audio into 10-minute segment files, detect  *)
(* the language of and transcribe each extracted segment, write one        *)
(* intermediate transcript file per segment, remove the segment files and  *)
(* join the texts.                                                         *)
(*                                                                         *)
(* Times are integers counted in ticks, Scale ticks to the second, so that *)
(* durations such as 600.5 s are exact.  A segment file segment_<n>.wav    *)
(* and an intermediate file segment_<n>_transcricao.txt are both           *)
(* represented by their number n.                                          *)
(***************************************************************************)
EXTENDS Integers, Sequences, FiniteSets, TLC

VARIABLES
    pc,               \* position in transcribe_audio
    audio_exists,     \* audio_file.exists()                       (line 160)
    probe_out,        \* what ffprobe prints: <<TRUE, ticks>> or NotANumber
    wav,              \* wav[n]: segment_<n>.wav exists in temp_dir
    ckpt,             \* ckpt[n]: content of segment_<n>_transcricao.txt, or NoFile
    duration,         \* local duration                            (line 174)
    num_segments,     \* local num_segments                        (line 179)
    i,                \* loop variable i of lines 183 and 214
    segments,         \* local list segments                       (line 182)
    detect_result,    \* the "language" entry of local detect_result (line 221)
    detected_language,\* local detected_language                   (line 222)
    transcription,    \* local transcription                       (line 227)
    transcriptions,   \* local list transcriptions                 (line 212)
    rm,               \* how many entries of segments line 243 has visited
    result,           \* the returned pair, or NoResult while running
    slices,           \* history: <<n, start, end>> of every ffmpeg invocation
    heard,            \* history: heard[n] is the text Whisper returned for segment_<n>.wav
    language_used,    \* history: language argument of the latest transcription call
    log               \* history: the external calls made, in order

vars == <<pc, audio_exists, probe_out, wav, ckpt, duration, num_segments, i,
          segments, detect_result, detected_language, transcription, transcriptions, rm,
          result, slices, heard, language_used, log>>

(***************************************************************************)
(* Bounds of the model.                                                    *)
(***************************************************************************)
Scale == 2          \* ticks per second
MaxFull == 2        \* durations span up to MaxFull full segments plus a remainder

(***************************************************************************)
(* Constants of the program.                                               *)
(***************************************************************************)
SegmentSeconds == 600       \* segment_length = 10 * 60
MinSeconds == 1             \* if end - start < 1: continue

segment_length == SegmentSeconds * Scale
Separator == "\n\n"
FallbackLanguage == "pt"

\* Standard output of ffprobe: <<TRUE, d>> when float() and int() accept it as
\* the number d, NotANumber when one of them raises.
NotANumber == <<FALSE, 0>>
NoFile == "<no file>"
NoText == "<no text>"
NoResult == <<FALSE, "<running>">>
NoLanguage == "<unset>"
MissingKey == "<missing key>"
None == "None"

Min(a, b) == IF a <= b THEN a ELSE b

\* Python's int() on the quotient of two numbers, b > 0: truncation toward zero.
IntDiv(a, b) == IF a >= 0 THEN a \div b ELSE -((-a) \div b)

\* Durations the probe may report, in ticks: every whole number of segments up
\* to MaxFull plus a remainder of 0 s, less than 1 s, 1 s, just over 1 s, half
\* a segment or a segment less one tick; and negative ones.
Remainders == (0 .. Scale + 1) \cup {segment_length \div 2, segment_length - 1}
Durations ==
    {q * segment_length + r : q \in 0 .. MaxFull, r \in Remainders}
        \cup {-1, -Scale, -segment_length - 1}

\* The highest segment number any of these durations plans.
Indices == 0 .. MaxFull

\* Texts Whisper may return for segment_<n>.wav: nothing, or words of its own.
Letters == <<"a", "b", "c", "d", "e", "f", "g", "h">>
Word(n) == Letters[(n % Len(Letters)) + 1]
TextsOf(n) == {"", Word(n)}

\* What the "language" entry of the detection result may be.
DetectResults == {MissingKey, None, "en"}

Event(op, seg, at) == [op |-> op, seg |-> seg, at |-> at]

(***************************************************************************)
(* Helpers translated from the body of transcribe_audio.                   *)
(***************************************************************************)
\* line 179
NumSegments(d) == IntDiv(d, segment_length) + 1
\* line 184
SegStart(n) == n * segment_length
\* line 185
SegEnd(n, d) == Min((n + 1) * segment_length, d)
TooShortNegative(n, d) == SegEnd(n, d) - SegStart(n) < 0
TooShortInclusive(n, d) == SegEnd(n, d) - SegStart(n) <= MinSeconds * Scale
\* line 186
TooShort(n, d) == SegEnd(n, d) - SegStart(n) < MinSeconds * Scale
\* line 189 / line 231: the number in the file name
SegmentFileNumber(n) == n
IntermediateFileNumber(pos, seg) == pos
\* line 222: dict.get("language", "pt")
GetLanguage(r) == IF r = MissingKey THEN FallbackLanguage ELSE r

\* str.join: the items with sep between neighbours
RECURSIVE Join(_, _)
Join(list, sep) ==
    IF Len(list) = 0 THEN ""
    ELSE IF Len(list) = 1 THEN list[1]
    ELSE list[1] \o sep \o Join(Tail(list), sep)

FullTranscriptionSingleNewline(list) == Join(list, "\n")
\* line 251: full_transcription
FullTranscription(list) == Join(list, Separator)

\* lines 204-208: the segment joins the list only if its file exists
SegmentsAlways(segs, n, exists) == Append(segs, n)
SegmentsAfter(segs, n, exists) == IF exists THEN Append(segs, n) ELSE segs

\* lines 258-260: the handler of the try block
Failure == <<FALSE, "">>

AfterExtractionEager(next_i, n, segs) ==
    IF Len(segs) > 0 THEN "detect"
    ELSE IF next_i < n THEN "extract"
    ELSE "join"
\* Where control goes once range(num_segments) is exhausted (lines 183, 214, 243).
AfterExtraction(next_i, n, segs) ==
    IF next_i < n THEN "extract"
    ELSE IF Len(segs) > 0 THEN "detect"
    ELSE "join"

\* The loop of line 214 binds i anew, starting from 0.
LoopIndex(next_pc, next_i) == IF next_pc = "detect" THEN 0 ELSE next_i

\* The locals of transcribe_audio on entry, an empty history, and no
\* intermediate transcript in temp_dir.
InitRun ==
    /\ pc = "start"
    /\ ckpt = [n \in Indices |-> NoFile]
    /\ duration = 0
    /\ num_segments = 0
    /\ i = 0
    /\ segments = <<>>
    /\ detect_result = NoLanguage
    /\ detected_language = NoLanguage
    /\ transcription = NoText
    /\ transcriptions = <<>>
    /\ rm = 0
    /\ result = NoResult
    /\ slices = <<>>
    /\ heard = [n \in Indices |-> NoText]
    /\ language_used = NoLanguage
    /\ log = <<>>

\* The audio file may be missing, ffprobe may print anything, and temp_dir may
\* hold segment files of an earlier run.
Init ==
    /\ InitRun
    /\ audio_exists \in BOOLEAN
    /\ probe_out \in {<<TRUE, d>> : d \in Durations} \cup {NotANumber}
    /\ wav \in [Indices -> BOOLEAN]

ProbeFailsOnlyMissing(exists, out) == ~exists
\* lines 160-162 and 174-179: the file is missing (return False, ""), or
\* float() or int() raises on what ffprobe printed
ProbeFails(exists, out) == ~exists \/ out = NotANumber

\* lines 159-182: existence check, ffprobe, float(), num_segments
ProbeDuration ==
    /\ pc = "start"
    /\ IF ProbeFails(audio_exists, probe_out)
       THEN /\ result' = Failure
            /\ pc' = "done"
            /\ UNCHANGED <<duration, num_segments>>
       ELSE /\ duration' = probe_out[2]
            /\ num_segments' = NumSegments(probe_out[2])
            /\ pc' = AfterExtraction(0, NumSegments(probe_out[2]), <<>>)
            /\ UNCHANGED result
    /\ log' = IF audio_exists THEN Append(log, Event("probe", 0, 0)) ELSE log
    /\ UNCHANGED <<audio_exists, probe_out, wav, ckpt, i, segments,
                   detect_result, detected_language, transcription, transcriptions, rm,
                   slices, heard, language_used>>

\* lines 183-208: one iteration of the extraction loop.  ffmpeg either writes
\* the segment file ("created"), fails leaving the directory as it was
\* ("unchanged"), or cannot be started, in which case subprocess.run raises.
ExtractSegment ==
    /\ pc = "extract"
    /\ i < num_segments
    /\ IF TooShort(i, duration)
       THEN /\ pc' = AfterExtraction(i + 1, num_segments, segments)
            /\ i' = LoopIndex(pc', i + 1)
            /\ UNCHANGED <<wav, segments, slices, log, result>>
       ELSE /\ slices' = Append(slices, <<i, SegStart(i), SegEnd(i, duration)>>)
            /\ \E outcome \in {"created", "unchanged", "raise"} :
                 IF outcome = "raise"
                 THEN /\ log' = log \o <<Event("slice", i, i), Event("raise", i, i)>>
                      /\ result' = Failure
                      /\ pc' = "done"
                      /\ UNCHANGED <<wav, segments, i>>
                 ELSE /\ wav' = IF outcome = "created"
                                THEN [wav EXCEPT ![SegmentFileNumber(i)] = TRUE]
                                ELSE wav
                      /\ log' = log \o
                            <<Event("slice", i, i),
                              Event(IF outcome = "created"
                                    THEN "created" ELSE "tool failed", i, i),
                              Event(IF wav'[SegmentFileNumber(i)]
                                    THEN "exists" ELSE "missing", i, i)>>
                      /\ segments' = SegmentsAfter(segments, SegmentFileNumber(i),
                                                   wav'[SegmentFileNumber(i)])
                      /\ pc' = AfterExtraction(i + 1, num_segments, segments')
                      /\ i' = LoopIndex(pc', i + 1)
                      /\ UNCHANGED result
    /\ UNCHANGED <<audio_exists, probe_out, ckpt, duration, num_segments,
                   detect_result, detected_language, transcription, transcriptions, rm,
                   heard, language_used>>

\* The segment file the transcription loop is at: enumerate(segments), line 214.
\* The loop reuses the name i, starting again from 0.
CurrentSegment == segments[i + 1]

\* lines 221-222: the language-detection call and dict.get
DetectLanguage ==
    /\ pc = "detect"
    /\ \E r \in DetectResults \cup {"raise"} :
         IF r = "raise"
         THEN /\ log' = log \o <<Event("detect", CurrentSegment, i),
                                 Event("raise", CurrentSegment, i)>>
              /\ result' = Failure
              /\ pc' = "done"
              /\ UNCHANGED <<detect_result, detected_language>>
         ELSE /\ log' = Append(log, Event("detect", CurrentSegment, i))
              /\ detect_result' = r
              /\ detected_language' = GetLanguage(r)
              /\ pc' = "transcribe"
              /\ UNCHANGED result
    /\ UNCHANGED <<audio_exists, probe_out, wav, ckpt, duration, num_segments,
                   i, segments, transcription, transcriptions, rm, slices,
                   heard, language_used>>

\* lines 226-227: the transcription call
Transcribe ==
    /\ pc = "transcribe"
    /\ language_used' = detected_language
    /\ \E t \in TextsOf(CurrentSegment) \cup {"raise"} :
         IF t = "raise"
         THEN /\ log' = log \o <<Event("transcribe", CurrentSegment, i),
                                 Event("raise", CurrentSegment, i)>>
              /\ result' = Failure
              /\ pc' = "done"
              /\ UNCHANGED <<transcription, heard>>
         ELSE /\ log' = Append(log, Event("transcribe", CurrentSegment, i))
              /\ transcription' = t
              /\ heard' = [heard EXCEPT ![CurrentSegment] = t]
              /\ pc' = "checkpoint"
              /\ UNCHANGED result
    /\ UNCHANGED <<audio_exists, probe_out, wav, ckpt, duration, num_segments,
                   i, segments, detect_result, detected_language, transcriptions, rm, slices>>

\* Where control goes after line 239.
AfterTranscription(next_i, segs) ==
    IF next_i < Len(segs) THEN "detect" ELSE "cleanup"

\* lines 231-239: write the intermediate file, append to transcriptions.
\* open() or write() may raise; nothing in the loop catches it.
WriteIntermediate ==
    /\ pc = "checkpoint"
    /\ \E written \in BOOLEAN :
         IF written
         THEN /\ ckpt' = [ckpt EXCEPT
                            ![IntermediateFileNumber(i, CurrentSegment)] = transcription]
              /\ log' = Append(log, Event("checkpoint", CurrentSegment,
                                          IntermediateFileNumber(i, CurrentSegment)))
              /\ transcriptions' = Append(transcriptions, transcription)
              /\ i' = i + 1
              /\ pc' = AfterTranscription(i + 1, segments)
              /\ UNCHANGED result
         ELSE /\ log' = log \o <<Event("checkpoint failed", CurrentSegment,
                                       IntermediateFileNumber(i, CurrentSegment)),
                                 Event("raise", CurrentSegment, i)>>
              /\ result' = Failure
              /\ pc' = "done"
              /\ UNCHANGED <<ckpt, transcriptions, i>>
    /\ UNCHANGED <<audio_exists, probe_out, wav, duration, num_segments,
                   segments, detect_result, detected_language, transcription, rm, slices,
                   heard, language_used>>

\* lines 243-248: one iteration of the removal loop; a failing os.remove is
\* caught and logged.
RemoveSegment ==
    /\ pc = "cleanup"
    /\ rm < Len(segments)
    /\ \E removed \in BOOLEAN :
         wav' = IF removed THEN [wav EXCEPT ![segments[rm + 1]] = FALSE] ELSE wav
    /\ log' = Append(log, Event("remove", segments[rm + 1], rm))
    /\ rm' = rm + 1
    /\ pc' = IF rm + 1 < Len(segments) THEN "cleanup" ELSE "join"
    /\ UNCHANGED <<audio_exists, probe_out, ckpt, duration, num_segments, i,
                   segments, detect_result, detected_language, transcription, transcriptions,
                   result, slices, heard, language_used>>

\* lines 251-257: join and return
JoinTranscriptions ==
    /\ pc = "join"
    /\ result' = <<TRUE, FullTranscription(transcriptions)>>
    /\ log' = Append(log, Event("join", 0, 0))
    /\ pc' = "done"
    /\ UNCHANGED <<audio_exists, probe_out, wav, ckpt, duration, num_segments,
                   i, segments, detect_result, detected_language, transcription,
                   transcriptions, rm, slices, heard, language_used>>

Next ==
    \/ ProbeDuration
    \/ ExtractSegment
    \/ DetectLanguage
    \/ Transcribe
    \/ WriteIntermediate
    \/ RemoveSegment
    \/ JoinTranscriptions

Spec == Init /\ [][Next]_vars

(***************************************************************************)
(* The segment plan alone: every duration from 0 to MaxFull + 1 segments,  *)
(* tick by tick, in an empty temp_dir, through probing and extraction.     *)
(***************************************************************************)
MaxDuration == (MaxFull + 1) * segment_length

InitPlan ==
    /\ InitRun
    /\ audio_exists = TRUE
    /\ probe_out \in {<<TRUE, d>> : d \in 0 .. MaxDuration}
    /\ wav = [n \in Indices |-> FALSE]

NextPlan == ProbeDuration \/ ExtractSegment

SpecPlan == InitPlan /\ [][NextPlan]_vars

\* The extraction loop has run to its end (no call in it raised).
ExtractionComplete ==
    \/ pc \in {"detect", "transcribe", "checkpoint", "cleanup", "join"}
    \/ pc = "done" /\ result[1]

OneSecond == Scale

\* The plan as the specification words it.
Candidates(d) ==
    [c \in 1 .. (d \div segment_length) + 1 |->
        <<c - 1, (c - 1) * segment_length, Min(c * segment_length, d)>>]
AtLeastOneSecond(c) == c[3] - c[2] >= OneSecond
PlanOf(d) == SelectSeq(Candidates(d), AtLeastOneSecond)

Contiguous(p) ==
    /\ Len(p) > 0 => p[1][2] = 0
    /\ \A j \in 1 .. Len(p) : p[j][2] < p[j][3]
    /\ \A j \in 2 .. Len(p) : p[j][2] = p[j - 1][3]
Covers(p, d) ==
    IF Len(p) = 0 THEN d < OneSecond
    ELSE p[Len(p)][3] <= d /\ d - p[Len(p)][3] < OneSecond

\* C6: for every duration D >= 0 the slices cut are exactly the candidates
\* (n*L, min((n+1)*L, D)), n = 0..floor(D/L), in ascending n, less those shorter
\* than one second; they are contiguous from 0 and cover [0, D) up to a dropped
\* tail shorter than one second; D = 600.5 s gives the single slice (0, 600).
C6_PlanIsExact ==
    (ExtractionComplete /\ duration >= 0) =>
        /\ slices = PlanOf(duration)
        /\ Contiguous(slices)
        /\ Covers(slices, duration)
        /\ 2 * duration = 1201 * Scale =>
               slices = <<<<0, 0, 600 * Scale>>>>

\* D = 1500 s has been cut into (0,600), (600,1200), (1200,1500).
C6_Witness ==
    /\ ExtractionComplete
    /\ duration = 1500 * Scale
    /\ slices = <<<<0, 0, 600 * Scale>>,
                  <<1, 600 * Scale, 1200 * Scale>>,
                  <<2, 1200 * Scale, 1500 * Scale>>>>

(***************************************************************************)
(* Reading the history.                                                    *)
(***************************************************************************)
Logged(op, seg) == \E j \in 1 .. Len(log) : log[j].op = op /\ log[j].seg = seg
\* The call op on segment seg raised.
RaisedIn(op, seg) ==
    \E j \in 2 .. Len(log) :
        log[j].op = "raise" /\ log[j - 1].op = op /\ log[j - 1].seg = seg
SomeRaise == \E j \in 1 .. Len(log) : log[j].op = "raise"
SliceRaisedWithin(a, b) == \E m \in a .. b : RaisedIn("slice", m)
Returned == pc = "done"
Succeeded == Returned /\ result[1]
Planned == {PlanOf(duration)[j][1] : j \in 1 .. Len(PlanOf(duration))}

\* The numbers of a set in ascending order.
RECURSIVE Ascending(_)
Ascending(S) ==
    IF S = {} THEN <<>>
    ELSE LET least == CHOOSE x \in S : \A y \in S : x <= y
         IN <<least>> \o Ascending(S \ {least})

\* C1 (as claimed): when the detection or transcription call of a segment that
\* is not the last raises, the next segment is still detected and transcribed.
C1_FailureIsIsolated ==
    Returned =>
        \A pos \in 1 .. Len(segments) - 1 :
            (RaisedIn("detect", segments[pos]) \/ RaisedIn("transcribe", segments[pos]))
                => /\ Logged("detect", segments[pos + 1])
                   /\ Logged("transcribe", segments[pos + 1])

OkSegments == {n \in Indices : Logged("exists", n) /\ heard[n] # NoText}
RECURSIVE Assembled(_, _, _)
Assembled(n, acc, first) ==
    IF n \notin Indices THEN acc
    ELSE IF n \in OkSegments
         THEN Assembled(n + 1, acc \o (IF first THEN "" ELSE "\n\n") \o heard[n], FALSE)
         ELSE Assembled(n + 1, acc, first)

\* C3: a successful run returns the texts of the segments extracted and
\* transcribed, in ascending segment order, joined by a blank line, nothing for
\* the others; with segment 1 of three not extracted it is text(0), a blank
\* line, text(2).
C3_TranscriptIsOrderedJoin ==
    Succeeded =>
        /\ result[2] = Assembled(0, "", TRUE)
        /\ (Planned = {0, 1, 2} /\ Logged("missing", 1)
                /\ Logged("exists", 0) /\ Logged("exists", 2))
               => result[2] = heard[0] \o "\n\n" \o heard[2]

C3_Witness ==
    /\ Succeeded
    /\ Planned = {0, 1, 2}
    /\ Logged("missing", 1)
    /\ heard[0] = "a"
    /\ heard[2] = "c"
    /\ result[2] = "a\n\nc"

\* An intermediate transcript written for segment seg is on disk.
CheckpointExistsFor(seg) ==
    \E j \in 1 .. Len(log) :
        log[j].op = "checkpoint" /\ log[j].seg = seg /\ ckpt[log[j].at] # NoFile

\* C4 (as claimed): every segment whose detection or transcription was
\* attempted, successfully or not, has its intermediate transcript on disk
\* before the next segment is begun, and still has it when the run has ended.
C4_CheckpointForEveryAttempt ==
    \A pos \in 1 .. Len(segments) :
        Logged("detect", segments[pos]) =>
            /\ (pos < Len(segments) /\ Logged("detect", segments[pos + 1]))
                   => CheckpointExistsFor(segments[pos])
            /\ Returned => CheckpointExistsFor(segments[pos])

\* C5 (as claimed): the transcript of segment_<n>.wav is written to
\* segment_<n>_transcricao.txt, the same n.
C5_CheckpointNamedByPlanIndex ==
    \A j \in 1 .. Len(log) :
        log[j].op = "checkpoint" =>
            /\ log[j].at = log[j].seg
            /\ ckpt[log[j].seg] = heard[log[j].seg]

\* C7 (as claimed): a negative probed duration is rejected, the run does not
\* report success.
C7_NegativeDurationRejected ==
    (Returned /\ audio_exists /\ probe_out[1] /\ probe_out[2] < 0) => ~result[1]

\* C8 (as claimed): when writing a segment's intermediate transcript fails, the
\* run still succeeds, with that segment's text in the transcript and the later
\* segments processed.
C8_CheckpointFailureIsNotFatal ==
    Returned =>
        \A pos \in 1 .. Len(segments) :
            Logged("checkpoint failed", segments[pos]) =>
                /\ result[1]
                /\ Len(transcriptions) >= pos
                /\ \A later \in pos + 1 .. Len(segments) :
                       Logged("transcribe", segments[later])

\* C9 (as claimed): when the run has ended, os.remove has been attempted on
\* every segment file it extracted, whatever became of the transcription, and
\* a failed removal does not fail the run.
C9_EverySegmentFileRemoved ==
    Returned =>
        /\ \A pos \in 1 .. Len(segments) : Logged("remove", segments[pos])
        /\ (\E pos \in 1 .. Len(segments) :
                Logged("remove", segments[pos]) /\ wav[segments[pos]])
               => result[1]

NoCallOrFile ==
    /\ slices = <<>>
    /\ \A j \in 1 .. Len(log) :
           log[j].op \notin {"slice", "detect", "transcribe", "checkpoint",
                             "checkpoint failed", "remove"}
    /\ \A n \in Indices : ckpt[n] = NoFile

\* C10: for a probed duration of 0 no segment is planned, no slicing,
\* detection or transcription call is made, no intermediate transcript is
\* written, and the run returns success with the empty string.
C10_ZeroDuration ==
    (audio_exists /\ probe_out = <<TRUE, 0>>) =>
        /\ NoCallOrFile
        /\ Planned = {}
        /\ pc \notin {"detect", "transcribe", "checkpoint", "cleanup"}
        /\ Returned => result = <<TRUE, "">>

C10_Witness ==
    /\ audio_exists
    /\ probe_out = <<TRUE, 0>>
    /\ Returned
    /\ result = <<TRUE, "">>
    /\ Logged("join", 0)

\* C11: when probing fails (the audio file is missing, or the probe output is
\* no number) the run reports failure, and no segment is extracted, no
\* transcription call is made and no intermediate transcript is written.
C11_ProbeFailureIsFatal ==
    (~audio_exists \/ probe_out = NotANumber) =>
        /\ NoCallOrFile
        /\ segments = <<>>
        /\ pc \in {"start", "done"}
        /\ Returned => result = Failure

\* ffprobe printed no number for an existing file and the run has failed.
C11_Witness ==
    /\ audio_exists
    /\ probe_out = NotANumber
    /\ Logged("probe", 0)
    /\ Returned
    /\ result = Failure

\* The call op1 on seg1 was made, and later the call op2 on seg2.
Before(op1, seg1, op2, seg2) ==
    \E k \in 1 .. Len(log) :
        /\ log[k].op = op2
        /\ log[k].seg = seg2
        /\ \E j \in 1 .. k - 1 : log[j].op = op1 /\ log[j].seg = seg1
\* Every call op1 precedes every call op2.
AllBefore(op1, op2) ==
    \A k \in 1 .. Len(log) :
        log[k].op = op2 => \A j \in k + 1 .. Len(log) : log[j].op # op1
AscendingCalls(op) ==
    \A j \in 1 .. Len(log) :
        log[j].op = op =>
            \A k \in j + 1 .. Len(log) :
                log[k].op = op => log[j].seg < log[k].seg

\* C12 (as claimed): segments are handled one at a time in ascending order,
\* each extracted segment being detected, transcribed and checkpointed before
\* the next segment is extracted; the transcript is assembled before the
\* segment files are removed.
C12_OneSegmentAtATime ==
    /\ AscendingCalls("slice")
    /\ \A m, n \in Indices :
           (m < n /\ Logged("exists", m) /\ Logged("slice", n)) =>
               /\ Before("detect", m, "slice", n)
               /\ Before("transcribe", m, "slice", n)
               /\ Before("checkpoint", m, "slice", n)
    /\ AllBefore("join", "remove")

\* C12 (amended): every planned segment is extracted first, in ascending order;
\* only then are the extracted segments taken one at a time, in ascending
\* order, each through detection, transcription and the intermediate write
\* before detection of the next; then the segment files are removed, and the
\* transcript is assembled after that.
C12_ExtractAllThenTranscribe ==
    /\ AscendingCalls("slice")
    /\ AscendingCalls("detect")
    /\ AllBefore("slice", "detect")
    /\ ExtractionComplete => \A m \in Planned : Logged("slice", m)
    /\ \A n \in Indices :
           /\ Logged("detect", n) => Before("exists", n, "detect", n)
           /\ Logged("transcribe", n) => Before("detect", n, "transcribe", n)
           /\ Logged("checkpoint", n) => Before("transcribe", n, "checkpoint", n)
    /\ \A pos \in 1 .. Len(segments) - 1 :
           Logged("detect", segments[pos + 1]) =>
               Before("checkpoint", segments[pos], "detect", segments[pos + 1])
    /\ AllBefore("checkpoint", "remove")
    /\ AllBefore("remove", "join")
    /\ Succeeded =>
           /\ log[Len(log)].op = "join"
           /\ \A pos \in 1 .. Len(segments) :
                  /\ Logged("checkpoint", segments[pos])
                  /\ Logged("remove", segments[pos])

\* Three segments were extracted before the first was detected, and the run
\* went through to the join.
C12_Witness ==
    /\ Succeeded
    /\ segments = <<0, 1, 2>>
    /\ Before("slice", 2, "detect", 0)
    /\ Before("checkpoint", 0, "detect", 1)
    /\ Before("remove", 2, "join", 0)

\* C13 (as claimed): a segment whose slicing invocation failed is not taken as
\* extracted and is not transcribed, even when a segment_<n>.wav of an earlier
\* run is there.
C13_OnlyFilesOfThisRun ==
    \A n \in Indices :
        Logged("tool failed", n) =>
            /\ Logged("missing", n)
            /\ \A pos \in 1 .. Len(segments) : segments[pos] # n
            /\ ~Logged("detect", n)
            /\ ~Logged("transcribe", n)

\* C14 (as claimed): the transcription call of a segment is made after that
\* segment's detection call, with the language the detection returned, or with
\* the fallback "pt" when it returned none, and never with no language.
C14_LanguageOrFallback ==
    pc = "checkpoint" =>
        /\ Before("detect", CurrentSegment, "transcribe", CurrentSegment)
        /\ language_used =
               IF detect_result \in {MissingKey, None}
               THEN FallbackLanguage ELSE detect_result
        /\ language_used \notin {None, MissingKey, NoLanguage}
====
